---- MODULE Spec2Model ----
(***************************************************************************)
(* Model of art-table/src/component/tableArt.tsx: the useTableArt hook     *)
(* (one request per page index, responses applied in arrival order) and    *)
(* the TableArt component (page index, selection set of record             *)
(* identifiers, pending bulk-select count).                                *)
(*                                                                         *)
(* The listing endpoint is external.  It is modelled as a fixed data set   *)
(* of MaxPage full pages of RowsOnPage records and a last page of one      *)
(* record; a response has the documented shape { data, pagination.total }  *)
(* with the rows of the page the request names, or lacks the total.        *)
(* inflight is the list of requests issued and not yet answered, any of    *)
(* which may be answered next; it is kept ordered by page number, the most *)
(* recently issued request being flagged latest.                           *)
(*                                                                         *)
(* latest, failed, op and nav are history variables: the most recently     *)
(* issued request and its answer, the requests that failed since the last  *)
(* load, the call of a selection handler (onSelectionChange or             *)
(* handleCustomSelect) that led to the current state, if one did, and the  *)
(* progress of the navigation scenario: "home" when a toggle has left one  *)
(* record of page 0 selected while page 0 was displayed and no request was *)
(* in flight, "away" once the view has then left page 0, "back" once it    *)
(* has returned, "none" after any other call of a selection handler or of  *)
(* the count input.                                                        *)
(***************************************************************************)
EXTENDS Integers, Sequences, FiniteSets

VARIABLES pc, page, data, loading, totalRecords, error,
          selectedIds, selectCount, inflight, latest, failed, op, nav

vars == <<pc, page, data, loading, totalRecords, error,
          selectedIds, selectCount, inflight, latest, failed, op, nav>>

\* a call of a selection handler: its name, the pending count it read, the
\* identifiers of the rows it was handed, the number of unselected rows it found
Op(name, arg, ids, avail) == [name |-> name, arg |-> arg, ids |-> ids, avail |-> avail]

\* the last step was not a call of a selection handler
NoOp == Op("none", 0, {}, 0)

\* ---------------------------------------------------------------- bounds
MaxPage == 1
RowsOnPage == 2
MaxInFlight == 2

\* ------------------------------------------------------------- constants
rowsPerPage == 12

Null == "null"
FetchErrorMessage == "Failed to fetch artworks"

\* ------------------------------------------------- number <-> string
Digits == <<"0", "1", "2", "3", "4", "5", "6", "7", "8", "9">>

RECURSIVE ToString(_)
ToString(n) ==
    IF n < 10 THEN <<Digits[n + 1]>>
    ELSE ToString(n \div 10) \o <<Digits[(n % 10) + 1]>>

DigitValue(c) == CHOOSE d \in 0..9 : Digits[d + 1] = c

RECURSIVE ParseInt(_)
ParseInt(s) ==
    IF Len(s) = 0 THEN 0
    ELSE 10 * ParseInt(SubSeq(s, 1, Len(s) - 1)) + DigitValue(s[Len(s)])

\* ------------------------------------------------------ the endpoint
Pages == 0..MaxPage
NumRecords == MaxPage * RowsOnPage + 1
AllIds == 1..NumRecords
ReportedTotals == {NumRecords}

\* rows the endpoint holds for the zero-based page index p
ServerRows(p) ==
    IF p \in Pages
    THEN [i \in 1..(IF p < MaxPage THEN RowsOnPage ELSE 1) |-> [id |-> p * RowsOnPage + i]]
    ELSE <<>>

\* the bodies the endpoint can answer a request with
Responses(req) ==
    LET rows == ServerRows(ParseInt(req.page) - 1) IN
    { [hasData |-> TRUE, data |-> rows, hasTotal |-> TRUE, total |-> t] :
         t \in ReportedTotals }
    \cup { [hasData |-> TRUE, data |-> rows, hasTotal |-> FALSE, total |-> 0] }

\* ---------------------------------------------------------- helpers
RowIds(rs) == { rs[i].id : i \in 1..Len(rs) }

RemoveAt(s, i) == SubSeq(s, 1, i - 1) \o SubSeq(s, i + 1, Len(s))

MarkStale(s) == [i \in 1..Len(s) |-> [s[i] EXCEPT !.latest = FALSE]]

\* s with the request r added, before the first request of a higher page
Enqueue(s, r) ==
    LET before == Cardinality({ i \in 1..Len(s) : ParseInt(s[i].page) <= ParseInt(r.page) })
    IN SubSeq(s, 1, before) \o <<r>> \o SubSeq(s, before + 1, Len(s))

\* result.data || []
DataOrEmpty(resp) == IF resp.hasData THEN resp.data ELSE <<>>

\* result.pagination?.total || 0
TotalOrZero(resp) == IF resp.hasTotal /\ resp.total # 0 THEN resp.total ELSE 0

\* ------------------------------------------------------ derived view
pageSelection == SelectSeq(data, LAMBDA row : row.id \in selectedIds)

\* rows.filter(r => !selectedIds.has(r.id))
available == SelectSeq(data, LAMBDA r : r.id \notin selectedIds)

\* ------------------------------------------------ navigation scenario
\* nav after the page index is set to p
NavAfterPage(p) ==
    IF nav = "none" THEN "none"
    ELSE IF p # 0 THEN "away"
    ELSE IF nav = "away" THEN "back" ELSE nav

\* nav after the toggle has set the selection set to next
NavAfterToggle(next) ==
    IF /\ page = 0
       /\ inflight = <<>>
       /\ data = ServerRows(0)
       /\ selectCount = 0
       /\ Cardinality(next) = 1
       /\ next \subseteq RowIds(data)
    THEN "home"
    ELSE "none"

\* ------------------------------------------------------------ state
NoRequest == [page |-> <<>>, limit |-> <<>>, status |-> "none", data |-> <<>>]

Init ==
    /\ pc = "constructed"
    /\ page = 0
    /\ data = <<>>
    /\ loading = FALSE
    /\ totalRecords = 0
    /\ error = Null
    /\ selectedIds = {}
    /\ selectCount = 0
    /\ inflight = <<>>
    /\ latest = NoRequest
    /\ failed = {}
    /\ op = NoOp
    /\ nav = "none"

\* faulty variant: the zero-based page index is sent as it is
RequestZeroBased(p, l) == [page |-> ToString(p), limit |-> ToString(l), latest |-> TRUE]

\* the request fetchData builds for page index p and page size l
Request(p, l) == [page |-> ToString(p + 1), limit |-> ToString(l), latest |-> TRUE]

\* fetchData up to its await: setLoading(true), setError(null), fetch(...)
fetchData(p, l, pending) ==
    /\ loading' = TRUE
    /\ error' = Null
    /\ inflight' = Enqueue(MarkStale(pending), Request(p, l))
    /\ latest' = [page |-> ToString(p + 1), limit |-> ToString(l),
                  status |-> "pending", data |-> <<>>]

\* first render followed by the first run of the effect
Mount ==
    /\ pc = "constructed"
    /\ pc' = "mounted"
    /\ fetchData(page, rowsPerPage, inflight)
    /\ op' = NoOp
    /\ UNCHANGED <<page, data, totalRecords, selectedIds, selectCount, failed, nav>>

\* the table and its handlers are rendered only when there is no error
Interactive == pc = "mounted" /\ error = Null

\* the page events the paginator can raise; e.page may be undefined
PageInputs ==
    { [defined |-> TRUE, page |-> p] : p \in Pages } \cup {[defined |-> FALSE, page |-> 0]}

\* setPage(e.page ?? 0), and the effect re-run when the page index changed
onPageChange(e) ==
    LET p == IF e.defined THEN e.page ELSE 0 IN
    /\ Interactive
    /\ op' = NoOp
    /\ nav' = NavAfterPage(p)
    /\ page' = p
    /\ IF p # page
       THEN /\ Len(inflight) < MaxInFlight
            /\ fetchData(p, rowsPerPage, inflight)
       ELSE UNCHANGED <<loading, error, inflight, latest>>
    /\ UNCHANGED <<pc, data, totalRecords, selectedIds, selectCount, failed>>

\* the response to request i arrives with status ok and body resp
FetchSuccess(i, resp) ==
    /\ pc = "mounted"
    /\ i \in 1..Len(inflight)
    /\ data' = DataOrEmpty(resp)
    /\ totalRecords' = TotalOrZero(resp)
    /\ loading' = FALSE
    /\ inflight' = RemoveAt(inflight, i)
    /\ latest' = IF inflight[i].latest
                 THEN [latest EXCEPT !.status = "ok", !.data = DataOrEmpty(resp)]
                 ELSE latest
    /\ op' = NoOp
    /\ UNCHANGED <<pc, page, error, selectedIds, selectCount, failed, nav>>

\* faulty variant: a failure also resets the total
FetchFailureResetTotal(i) ==
    /\ pc = "mounted"
    /\ i \in 1..Len(inflight)
    /\ error' = FetchErrorMessage
    /\ loading' = FALSE
    /\ totalRecords' = 0
    /\ inflight' = RemoveAt(inflight, i)
    /\ latest' = IF inflight[i].latest
                 THEN [latest EXCEPT !.status = "failed"]
                 ELSE latest
    /\ failed' = failed \cup {[page |-> inflight[i].page, limit |-> inflight[i].limit]}
    /\ op' = NoOp
    /\ UNCHANGED <<pc, page, data, selectedIds, selectCount, nav>>

\* request i fails: fetch throws, res.ok is false, or res.json() throws
FetchFailure(i) ==
    /\ pc = "mounted"
    /\ i \in 1..Len(inflight)
    /\ error' = FetchErrorMessage
    /\ loading' = FALSE
    /\ inflight' = RemoveAt(inflight, i)
    /\ latest' = IF inflight[i].latest
                 THEN [latest EXCEPT !.status = "failed"]
                 ELSE latest
    /\ failed' = failed \cup {[page |-> inflight[i].page, limit |-> inflight[i].limit]}
    /\ op' = NoOp
    /\ UNCHANGED <<pc, page, data, totalRecords, selectedIds, selectCount, nav>>

\* the lists of checked rows the table can hand to onSelectionChange: the
\* table is given value = rows, so the checked rows are rows it displays
SelectionValues == SUBSET { data[i] : i \in 1..Len(data) }

\* faulty variant: the selection is replaced by the checked rows
ReconcileReplace(next, rs, value) == { v.id : v \in value }

RECURSIVE Reconcile(_, _, _)
Reconcile(next, rs, value) ==
    IF Len(rs) = 0 THEN next
    ELSE LET row == Head(rs) IN
         Reconcile(IF \E v \in value : v.id = row.id
                   THEN next \cup {row.id}
                   ELSE next \ {row.id},
                   Tail(rs), value)

onSelectionChange(value) ==
    /\ Interactive
    /\ selectedIds' = Reconcile(selectedIds, data, value)
    /\ op' = Op("onSelectionChange", 0, { v.id : v \in value }, 0)
    /\ nav' = NavAfterToggle(selectedIds')
    /\ UNCHANGED <<pc, page, data, loading, totalRecords, error,
                   selectCount, inflight, latest, failed>>

\* InputNumber with min = 1 and max = rows.length - pageSelection.length
MaxCount == RowsOnPage + 1

\* the value events of the count input; e.value is null when it is cleared
CountInputs ==
    { [defined |-> TRUE, value |-> n] : n \in 0..MaxCount } \cup {[defined |-> FALSE, value |-> 0]}

ClampCount(n) ==
    LET max == Len(data) - Len(pageSelection) IN
    IF n < 1 THEN 1 ELSE IF n > max THEN max ELSE n

\* setSelectCount(e.value ?? 0)
onValueChange(e) ==
    /\ Interactive
    /\ selectCount' = IF e.defined THEN ClampCount(e.value) ELSE 0
    /\ op' = NoOp
    /\ nav' = "none"
    /\ UNCHANGED <<pc, page, data, loading, totalRecords, error,
                   selectedIds, inflight, latest, failed>>

\* faulty variant: slice(0, selectCount + 1)
SliceInclusive(s, n) == SubSeq(s, 1, IF n + 1 < Len(s) THEN n + 1 ELSE Len(s))

\* available.slice(0, selectCount)
Slice(s, n) == SubSeq(s, 1, IF n < Len(s) THEN n ELSE Len(s))

\* faulty variant: the pending count is not reset
handleCustomSelectKeepCount ==
    /\ Interactive
    /\ op' = Op("handleCustomSelect", selectCount, {}, Len(available))
    /\ nav' = "none"
    /\ IF selectCount <= 0
       THEN UNCHANGED <<selectedIds, selectCount>>
       ELSE /\ selectedIds' = selectedIds \cup RowIds(Slice(available, selectCount))
            /\ selectCount' = selectCount
    /\ UNCHANGED <<pc, page, data, loading, totalRecords, error,
                   inflight, latest, failed>>

handleCustomSelect ==
    /\ Interactive
    /\ op' = Op("handleCustomSelect", selectCount, {}, Len(available))
    /\ nav' = "none"
    /\ IF selectCount <= 0
       THEN UNCHANGED <<selectedIds, selectCount>>
       ELSE /\ selectedIds' = selectedIds \cup RowIds(Slice(available, selectCount))
            /\ selectCount' = 0
    /\ UNCHANGED <<pc, page, data, loading, totalRecords, error,
                   inflight, latest, failed>>

\* Retry button: window.location.reload(), then the reloaded page mounts
Retry ==
    /\ pc = "mounted"
    /\ error # Null
    /\ pc' = "mounted"
    /\ page' = 0
    /\ data' = <<>>
    /\ totalRecords' = 0
    /\ selectedIds' = {}
    /\ selectCount' = 0
    /\ fetchData(0, rowsPerPage, <<>>)
    /\ failed' = {}
    /\ op' = NoOp
    /\ nav' = "none"

Next ==
    \/ Mount
    \/ \E e \in PageInputs : onPageChange(e)
    \/ \E i \in 1..Len(inflight) : \E resp \in Responses(inflight[i]) : FetchSuccess(i, resp)
    \/ \E i \in 1..Len(inflight) : FetchFailure(i)
    \/ \E value \in SelectionValues : onSelectionChange(value)
    \/ \E e \in CountInputs : onValueChange(e)
    \/ handleCustomSelect
    \/ Retry

Spec == Init /\ [][Next]_vars

\* ================================================================ claims

\* C1: a record X of page 0 that was selected on page 0 is, after the view has
\* gone to another page and come back to page 0 and every fetch has completed
\* (the last one issued with the rows of page 0), still in the selection set
\* and in the derived list of rows marked selected.
C1_SelectionSurvivesNavigation ==
    (/\ nav = "back"
     /\ page = 0
     /\ inflight = <<>>
     /\ error = Null
     /\ latest.status = "ok"
     /\ latest.data = ServerRows(0))
        => /\ selectedIds \cap RowIds(ServerRows(0)) # {}
           /\ \A X \in selectedIds \cap RowIds(ServerRows(0)) :
                  X \in RowIds(pageSelection)

\* C1, first half alone: a page change and the completion of a fetch leave the
\* selection set unchanged.
C1_OnlySelectionHandlersWrite ==
    [][selectedIds' # selectedIds
         => ~ (\/ \E e \in PageInputs : onPageChange(e)
               \/ \E i \in 1..Len(inflight) : \E resp \in Responses(inflight[i]) :
                     FetchSuccess(i, resp)
               \/ \E i \in 1..Len(inflight) : FetchFailure(i))]_vars

\* C2: after the checkbox toggle is applied with the checked rows V, a row of
\* the record list held is in the selection set iff it occurs in V, and every
\* identifier that is not of a held row is in the set exactly when it was.
C2_ToggleReconcilesCurrentPage ==
    [][op'.name = "onSelectionChange"
         => LET V == op'.ids IN
            /\ \A r \in RowIds(data) : (r \in selectedIds') <=> (r \in V)
            /\ \A x \in AllIds \ RowIds(data) :
                   (x \in selectedIds') <=> (x \in selectedIds)
            /\ (V = {} => selectedIds' = selectedIds \ RowIds(data))]_vars

\* C2 witness: a toggle has run that left one held row checked, one unchecked,
\* and an identifier of another page selected.
C2_Witness ==
    /\ op.name = "onSelectionChange"
    /\ op.ids # {}
    /\ RowIds(data) \cap selectedIds # {}
    /\ RowIds(data) \ selectedIds # {}
    /\ selectedIds \ RowIds(data) # {}

\* the identifiers of the first c unselected rows, in display order
FirstUnselected(c) ==
    { data[k].id : k \in { i \in 1..Len(data) :
          /\ data[i].id \notin selectedIds
          /\ Cardinality({ j \in 1..(i - 1) : data[j].id \notin selectedIds }) < c } }

\* C3: bulk-select with a pending count c > 0 and a unselected rows adds exactly
\* the first min(c, a) unselected rows in display order, and removes none.
C3_BulkSelectFirstAvailable ==
    [][(op'.name = "handleCustomSelect" /\ op'.arg > 0)
         => LET c == op'.arg
                a == Cardinality(RowIds(data) \ selectedIds)
            IN /\ c = selectCount
               /\ selectedIds' = selectedIds \cup FirstUnselected(c)
               /\ selectedIds \subseteq selectedIds'
               /\ Cardinality(selectedIds' \ selectedIds) = (IF c < a THEN c ELSE a)]_vars

\* C3 witness: bulk-select has run with a count above the number of unselected
\* rows of a page that had some.
C3_Witness ==
    /\ op.name = "handleCustomSelect"
    /\ op.avail > 0
    /\ op.arg > op.avail
    /\ RowIds(data) \subseteq selectedIds

\* C4: if the error message is set then the record list held is empty.
C4_ErrorImpliesNoRows == error # Null => data = <<>>

\* C5: after a fetch has failed, the retry action re-issues the request of a
\* fetch that failed: same 1-based page, same limit.
C5_RetryReissuesFailedRequest ==
    [][Retry
         => \E f \in failed : \E k \in 1..Len(inflight') :
                /\ inflight'[k].latest
                /\ inflight'[k].page = f.page
                /\ inflight'[k].limit = f.limit]_vars

\* a step that loads the view or changes the page index
Navigates == Mount \/ Retry \/ page' # page

\* the requests a step issues
NewRequests ==
    IF Retry \/ Len(inflight') > Len(inflight)
    THEN SelectSeq(inflight', LAMBDA r : r.latest)
    ELSE <<>>

\* C6: every request issued carries page = P + 1 and limit = S for the page
\* index P and the page size S, and each change of the page index (and each
\* load) issues exactly one request.
C6_RequestIsOneBased ==
    [][LET new == NewRequests IN
       /\ \A k \in 1..Len(new) :
             /\ ParseInt(new[k].page) = page' + 1
             /\ ParseInt(new[k].limit) = rowsPerPage
       /\ Len(new) = (IF Navigates THEN 1 ELSE 0)
       /\ Len(new) = 1 => Len(inflight') = (IF Retry THEN 1 ELSE Len(inflight) + 1)]_vars

\* C6 witness: the request for page index 1 is in flight beside an earlier one.
C6_Witness ==
    /\ page = 1
    /\ Len(inflight) = 2
    /\ \E k \in 1..2 : /\ inflight[k].latest
                       /\ inflight[k].page = <<"2">>
                       /\ inflight[k].limit = <<"1", "2">>

\* C7: once every issued request has completed, the record list held is the
\* response to the most recently issued request and the error message
\* reflects that request's outcome.
C7_LatestRequestWins ==
    (pc = "mounted" /\ inflight = <<>>)
        => /\ latest.status = "ok" => (data = latest.data /\ error = Null)
           /\ latest.status = "failed" => error # Null

\* C8: the total record count changes only when a fetch completes
\* successfully, and is then the total the response reports, 0 when it reports
\* none; a failed fetch leaves it as it was.  (The reload rebuilds the
\* component, whose total starts at 0.)
C8_TotalChangesOnlyOnSuccess ==
    [][/\ (\E i \in 1..Len(inflight) : FetchFailure(i)) => totalRecords' = totalRecords
       /\ Len(inflight') < Len(inflight)
             => \A i \in 1..Len(inflight) : \A resp \in Responses(inflight[i]) :
                   FetchSuccess(i, resp)
                     => totalRecords' = (IF resp.hasTotal THEN resp.total ELSE 0)
       /\ totalRecords' # totalRecords
             => \/ \E i \in 1..Len(inflight) : \E resp \in Responses(inflight[i]) :
                      FetchSuccess(i, resp)
                \/ Retry]_vars

\* C8 witness: a fetch has failed while a total reported earlier is held.
C8_Witness ==
    /\ error # Null
    /\ latest.status = "failed"
    /\ totalRecords > 0

\* C9: the loading flag is true exactly while a request is in flight.
C9_LoadingIffInFlight == pc = "mounted" => (loading <=> inflight # <<>>)

\* C10: bulk-select with a pending count <= 0 changes neither the selection set
\* nor the pending count; with a count > 0 it leaves the pending count at
\* zero, so that applying again at once changes nothing.
C10_BulkSelectCountGuard ==
    [][op'.name = "handleCustomSelect"
         => /\ op'.arg = selectCount
            /\ selectCount <= 0 => (selectedIds' = selectedIds /\ selectCount' = selectCount)
            /\ selectCount > 0 => selectCount' = 0
            /\ (op.name = "handleCustomSelect" /\ op.arg > 0)
                  => (selectedIds' = selectedIds /\ selectCount' = selectCount)]_vars

\* C10 witness: bulk-select has run with a pending count of zero while records
\* are selected, and has left both as they were.
C10_Witness ==
    /\ op.name = "handleCustomSelect"
    /\ op.arg <= 0
    /\ selectCount = 0
    /\ selectedIds # {}
====
